---- MODULE Spec2Model ----
(***************************************************************************)
(* Model of scripts/scraper.py (NBA Fantasy weekly ranking).               *)
(*                                                                         *)
(* Dates are day numbers; day 0 is a Monday, so weekday(d) = d % 7 and the *)
(* ISO date strings of the source, which it compares as strings, order as  *)
(* the day numbers do.  An optional value (Python None or a value) is a    *)
(* sequence of length at most one: None == <<>>, Some(v) == <<v>>.         *)
(***************************************************************************)
EXTENDS Integers, Sequences, FiniteSets, TLC

VARIABLES DAILY_DIR,    \* the snapshot files: date -> None or Some(entries)
          game_days,    \* the day indexes with scheduled games
          today_str,    \* the date of the last compute_weekly_ranking call
          weekly_data,  \* what that call returned: None or Some(rows)
          OUTPUT_FILE,  \* docs/data.json: the last written rankings
          pc,           \* position in the collect / compute / write pipeline
          events,       \* the events calendar handed to the resolver
          game_map,     \* what get_game_dates_for_week returned
          gpc           \* position of the calendar resolver

vars == <<DAILY_DIR, game_days, today_str, weekly_data, OUTPUT_FILE, pc,
          events, game_map, gpc>>

(* ---------------------------- bounds ----------------------------------- *)
MaxDay == 1        \* last day of the week on which a snapshot or a run falls
PreWeekDays == 2   \* days before the week's Monday that may hold a snapshot
MaxRows == 3       \* entries held by the snapshot files of DAILY_DIR together
MaxEvents == 3     \* events in the calendar

EntryIds == {1, 2}
TotalValues == {0, 15}
DeadlineHours == {3, 5, 28, 170, 175}

(* ------------------------ program constants ---------------------------- *)
POINTS_DIVISOR == 10
WEEK_DAYS == 7
ET_OFFSET == 5

None == <<>>
Some(v) == <<v>>

SnapDates == (0 - PreWeekDays)..MaxDay
RunDates == 0..MaxDay

MaxOf(S) == CHOOSE m \in S : \A x \in S : x <= m

(* ------------------------- snapshot store ------------------------------ *)
\* The entries a capture can hold: a non-empty list (main aborts on an empty
\* fetch) of distinct participants with their cumulative totals.
EntryLists ==
  UNION { { s \in [1..n -> [entry : EntryIds, total : TotalValues]] :
              \A a, b \in 1..n : a # b => s[a].entry # s[b].entry }
          : n \in 1..Cardinality(EntryIds) }

get_week_bounds(date_str) ==
  LET monday == date_str - (date_str % WEEK_DAYS)
  IN  <<monday, monday + (WEEK_DAYS - 1)>>

load_daily_snapshot(date_str) ==
  IF date_str \in DOMAIN DAILY_DIR THEN DAILY_DIR[date_str] ELSE None

find_previous_snapshot(date_str) ==
  LET earlier == { d \in DOMAIN DAILY_DIR : DAILY_DIR[d] # None /\ d < date_str }
  IN  IF earlier = {} THEN None ELSE DAILY_DIR[MaxOf(earlier)]

(* ------------------- compute_weekly_ranking: loading -------------------- *)
\* variant: the loading loop without its break at today
daily_snapshots_whole_week(t) ==
  LET monday == get_week_bounds(t)[1]
      loaded == { d \in monday..(monday + WEEK_DAYS - 1) :
                    load_daily_snapshot(d) # None }
  IN  [d \in loaded |-> load_daily_snapshot(d)[1]]

\* date -> entries, for the dates of the week up to today that have a file
daily_snapshots(t) ==
  LET monday == get_week_bounds(t)[1]
      loaded == { d \in monday..(monday + WEEK_DAYS - 1) :
                    d <= t /\ load_daily_snapshot(d) # None }
  IN  [d \in loaded |-> load_daily_snapshot(d)[1]]

HasEntry(entries, eid) == \E k \in 1..Len(entries) : entries[k].entry = eid

\* the total of the last entry of the list carrying this id (last write wins)
TotalIn(entries, eid) ==
  entries[MaxOf({ k \in 1..Len(entries) : entries[k].entry = eid })].total

RECURSIVE AppendNew(_, _, _)
AppendNew(seen, entries, k) ==
  IF k > Len(entries) THEN seen
  ELSE AppendNew(IF \E p \in 1..Len(seen) : seen[p] = entries[k].entry
                   THEN seen ELSE Append(seen, entries[k].entry),
                 entries, k + 1)

RECURSIVE EntryInfoUpTo(_, _, _)
EntryInfoUpTo(snaps, monday, i) ==
  IF i < 0 THEN <<>>
  ELSE LET before == EntryInfoUpTo(snaps, monday, i - 1)
       IN  IF (monday + i) \in DOMAIN snaps
             THEN AppendNew(before, snaps[monday + i], 1) ELSE before

\* the ids of the dict entry_info, in its iteration (first insertion) order
entry_info(t) ==
  EntryInfoUpTo(daily_snapshots(t), get_week_bounds(t)[1], WEEK_DAYS - 1)

\* entry_totals[eid]: date -> total
entry_totals(snaps, eid) ==
  [d \in { x \in DOMAIN snaps : HasEntry(snaps[x], eid) } |->
     TotalIn(snaps[d], eid)]

\* pre_week_totals: id -> total, from the nearest snapshot before Monday
pre_week_totals(monday_str) ==
  LET pre_week_snapshot == find_previous_snapshot(monday_str)
  IN  IF pre_week_snapshot = None THEN [e \in {} |-> 0]
      ELSE [e \in { pre_week_snapshot[1][k].entry :
                       k \in 1..Len(pre_week_snapshot[1]) } |->
              TotalIn(pre_week_snapshot[1], e)]

(* ------------------- compute_weekly_ranking: deltas --------------------- *)
\* In the operators below totals is entry_totals[eid], pre is pre_week_totals
\* and monday is monday_dt, the locals of the function.

\* prev_total for day index i: None or Some(total)
prev_total(totals, pre, monday, eid, i) ==
  LET back == { j \in 0..(i - 1) : (monday + j) \in DOMAIN totals }
  IN  IF back # {} THEN Some(totals[monday + MaxOf(back)])
      ELSE IF eid \in DOMAIN pre THEN Some(pre[eid])
      ELSE None

\* Python's // is floor division, as is \div
FloorDiv(a, b) == a \div b

\* variant: a decrease of the cumulative total is clamped to zero
day_pts_clamped(totals, pre, monday, eid, i) ==
  LET current_total == totals[monday + i]
      prev == prev_total(totals, pre, monday, eid, i)
      pts == IF prev # None THEN FloorDiv(current_total - prev[1], POINTS_DIVISOR)
             ELSE 0
  IN  IF pts < 0 THEN 0 ELSE pts

day_pts(totals, pre, monday, eid, i) ==
  LET current_total == totals[monday + i]
      prev == prev_total(totals, pre, monday, eid, i)
  IN  IF prev # None THEN FloorDiv(current_total - prev[1], POINTS_DIVISOR)
      ELSE 0

\* variant: the calendar is not consulted
SlotComputedNoCalendar(totals, monday, gdays, i) ==
  (monday + i) \in DOMAIN totals

\* the slot i is computed: neither continue of the day loop is taken
SlotComputed(totals, monday, gdays, i) ==
  /\ i \in gdays
  /\ (monday + i) \in DOMAIN totals

days_array(totals, pre, monday, gdays, eid) ==
  [i \in 0..(WEEK_DAYS - 1) |->
     IF SlotComputed(totals, monday, gdays, i)
       THEN Some(day_pts(totals, pre, monday, eid, i)) ELSE None]

RECURSIVE WeeklyTotalUpTo(_, _, _, _, _, _)
WeeklyTotalUpTo(totals, pre, monday, gdays, eid, i) ==
  IF i < 0 THEN 0
  ELSE WeeklyTotalUpTo(totals, pre, monday, gdays, eid, i - 1)
         + (IF SlotComputed(totals, monday, gdays, i)
              THEN day_pts(totals, pre, monday, eid, i) ELSE 0)

\* variant: the total also takes the deltas of the days without games
weekly_total_all_days(totals, pre, monday, gdays, eid) ==
  WeeklyTotalUpTo(totals, pre, monday, 0..(WEEK_DAYS - 1), eid, WEEK_DAYS - 1)

weekly_total(totals, pre, monday, gdays, eid) ==
  WeeklyTotalUpTo(totals, pre, monday, gdays, eid, WEEK_DAYS - 1)

\* weekly_data before the sort: one row for each id of entry_info
unsorted_rows(t, gdays) ==
  LET monday == get_week_bounds(t)[1]
      snaps == daily_snapshots(t)
      info == entry_info(t)
      pre == pre_week_totals(monday)
  IN  [k \in 1..Len(info) |->
         LET totals == entry_totals(snaps, info[k])
         IN  [entry |-> info[k],
              days  |-> days_array(totals, pre, monday, gdays, info[k]),
              total |-> weekly_total(totals, pre, monday, gdays, info[k])]]

(* ------------------- compute_weekly_ranking: ranking -------------------- *)
\* variant: an unstable sort, equal totals end in reverse order
InsertDescUnstable(sorted, x) ==
  LET ahead == { k \in 1..Len(sorted) : sorted[k].total > x.total }
      n == IF ahead = {} THEN 0 ELSE MaxOf(ahead)
  IN  SubSeq(sorted, 1, n) \o <<x>> \o SubSeq(sorted, n + 1, Len(sorted))

\* list.sort / sorted with key = total, reverse = True: stable, so an item
\* goes behind every item already placed whose total is not smaller
InsertDesc(sorted, x) ==
  LET ahead == { k \in 1..Len(sorted) : sorted[k].total >= x.total }
      n == IF ahead = {} THEN 0 ELSE MaxOf(ahead)
  IN  SubSeq(sorted, 1, n) \o <<x>> \o SubSeq(sorted, n + 1, Len(sorted))

RECURSIVE SortDescUpTo(_, _)
SortDescUpTo(rows, k) ==
  IF k = 0 THEN <<>> ELSE InsertDesc(SortDescUpTo(rows, k - 1), rows[k])

sort_by_total_desc(rows) == SortDescUpTo(rows, Len(rows))

RankOf(sorted, eid) == CHOOSE k \in 1..Len(sorted) : sorted[k].entry = eid

(* ------------------- compute_weekly_ranking: movement ------------------- *)
RECURSIVE YdayTotalUpTo(_, _, _, _, _, _, _)
YdayTotalUpTo(totals, pre, monday, yesterday_str, gdays, eid, i) ==
  IF i < 0 THEN 0
  ELSE YdayTotalUpTo(totals, pre, monday, yesterday_str, gdays, eid, i - 1)
         + (IF /\ monday + i <= yesterday_str
               /\ SlotComputed(totals, monday, gdays, i)
               /\ prev_total(totals, pre, monday, eid, i) # None
              THEN day_pts(totals, pre, monday, eid, i) ELSE 0)

\* yesterday_weekly.items(): one pair for every id of entry_info
yesterday_weekly(t, gdays) ==
  LET monday == get_week_bounds(t)[1]
      snaps == daily_snapshots(t)
      info == entry_info(t)
      pre == pre_week_totals(monday)
  IN  [k \in 1..Len(info) |->
         [entry |-> info[k],
          total |-> YdayTotalUpTo(entry_totals(snaps, info[k]), pre, monday,
                                  t - 1, gdays, info[k], WEEK_DAYS - 1)]]

\* yesterday_rank_map: id -> rank
yesterday_rank_map(t, gdays) ==
  LET sorted_yesterday == sort_by_total_desc(yesterday_weekly(t, gdays))
  IN  [e \in { sorted_yesterday[k].entry : k \in 1..Len(sorted_yesterday) } |->
         RankOf(sorted_yesterday, e)]

\* variant: the movement is computed whatever the history
HasMovementAlways(t) == TRUE

HasMovement(t) ==
  /\ (t - 1) \in DOMAIN daily_snapshots(t)
  /\ Cardinality(DOMAIN daily_snapshots(t)) >= 2

\* the movement of every row of the sorted list, by position
movements(t, gdays, sorted) ==
  IF HasMovement(t)
    THEN LET rank_map == yesterday_rank_map(t, gdays)
         IN  [k \in 1..Len(sorted) |->
                IF sorted[k].entry \in DOMAIN rank_map
                  THEN rank_map[sorted[k].entry] - k
                  ELSE 0]
    ELSE [k \in 1..Len(sorted) |-> 0]

compute_weekly_ranking(t, gdays) ==
  IF DOMAIN daily_snapshots(t) = {} THEN None
  ELSE LET sorted == sort_by_total_desc(unsorted_rows(t, gdays))
           moves == movements(t, gdays, sorted)
       IN  Some([k \in 1..Len(sorted) |->
                  [entry    |-> sorted[k].entry,
                   days     |-> sorted[k].days,
                   total    |-> sorted[k].total,
                   rank     |-> k,
                   movement |-> moves[k]]])

\* the rankings list of build_output
build_output(rows) ==
  [k \in 1..Len(rows) |->
     [r |-> rows[k].rank, d |-> rows[k].days,
      w |-> rows[k].total, m |-> rows[k].movement]]

(* ------------------------ calendar resolver ----------------------------- *)
\* A deadline_time is absent (missing, null or empty), a string that
\* datetime.fromisoformat rejects, or an ISO instant, kept as the hours (UTC)
\* since 00:00 of day 0.
DeadlineValues ==
  { [kind |-> "missing", hour |-> 0], [kind |-> "bad", hour |-> 0] }
    \cup { [kind |-> "iso", hour |-> h] : h \in DeadlineHours }

EventLists ==
  UNION { { [k \in 1..n |-> [id |-> k, deadline_time |-> dl[k]]] :
              dl \in [1..n -> DeadlineValues] } : n \in 0..MaxEvents }

\* astimezone(ET) and strftime("%Y-%m-%d"): the date of the instant in UTC-5
game_date(deadline_time) == FloorDiv(deadline_time.hour - ET_OFFSET, 24)

NoGameDays == [i \in {} |-> <<>>]

\* one pass of the loop over the events: the state after the event is handled
handle_event(acc, event, monday_str, sunday_str) ==
  IF acc.raised THEN acc
  ELSE IF event.deadline_time.kind = "missing" THEN acc
  ELSE IF event.deadline_time.kind = "bad"
    THEN [raised |-> TRUE, game_days |-> NoGameDays]
  ELSE LET d == game_date(event.deadline_time)
           day_index == d - monday_str
           g == acc.game_days
       IN  IF monday_str <= d /\ d <= sunday_str /\ 0 <= day_index /\ day_index <= 6
             THEN [raised |-> FALSE,
                   game_days |->
                     [i \in DOMAIN g \cup {day_index} |->
                        IF i = day_index
                          THEN (IF i \in DOMAIN g THEN g[i] ELSE <<>>) \o <<event.id>>
                          ELSE g[i]]]
             ELSE acc

RECURSIVE GameDatesUpTo(_, _, _, _)
GameDatesUpTo(evs, monday_str, sunday_str, n) ==
  IF n = 0 THEN [raised |-> FALSE, game_days |-> NoGameDays]
  ELSE handle_event(GameDatesUpTo(evs, monday_str, sunday_str, n - 1),
                    evs[n], monday_str, sunday_str)

\* raised: the call ended in an uncaught ValueError instead of returning
get_game_dates_for_week(evs, monday_str, sunday_str) ==
  GameDatesUpTo(evs, monday_str, sunday_str, Len(evs))

(* ----------------------------- actions ---------------------------------- *)
PreviousOutput ==
  Some(<<[r |-> 1, d |-> [i \in 0..(WEEK_DAYS - 1) |-> None], w |-> 0, m |-> 0]>>)

RECURSIVE RowsFrom(_, _)
RowsFrom(dir, d) ==
  IF d \notin DOMAIN dir THEN 0
  ELSE (IF dir[d] = None THEN 0 ELSE Len(dir[d][1])) + RowsFrom(dir, d + 1)

NumRows(dir) == RowsFrom(dir, 0 - PreWeekDays)

rankVars == <<DAILY_DIR, game_days, today_str, weekly_data, OUTPUT_FILE, pc>>
eventVars == <<events, game_map, gpc>>

Init ==
  /\ DAILY_DIR = [d \in SnapDates |-> None]
  /\ game_days \in SUBSET RunDates
  /\ today_str = 0
  /\ weekly_data = None
  /\ OUTPUT_FILE = PreviousOutput
  /\ pc = "collect"
  /\ events = <<>>
  /\ game_map = [raised |-> FALSE, game_days |-> NoGameDays]
  /\ gpc = "idle"

\* save_daily_snapshot: the file of the date is written.  The daily runs
\* capture in date order, so the file is the newest of the directory.
SaveSnapshot(date_str, entries) ==
  /\ pc = "collect"
  /\ \A d \in DOMAIN DAILY_DIR : DAILY_DIR[d] # None => d < date_str
  /\ NumRows(DAILY_DIR) + Len(entries) <= MaxRows
  /\ DAILY_DIR' = [DAILY_DIR EXCEPT ![date_str] = Some(entries)]
  /\ UNCHANGED <<game_days, today_str, weekly_data, OUTPUT_FILE, pc, eventVars>>

\* variant: the call marks today as a game day in its argument
RunComputeMutating(t) ==
  /\ pc = "collect"
  /\ today_str' = t
  /\ weekly_data' = compute_weekly_ranking(t, game_days)
  /\ game_days' = game_days \cup {t - get_week_bounds(t)[1]}
  /\ pc' = "computed"
  /\ UNCHANGED <<DAILY_DIR, OUTPUT_FILE, eventVars>>

\* a call of compute_weekly_ranking(today_str, game_days)
RunCompute(t) ==
  /\ pc = "collect"
  /\ today_str' = t
  /\ weekly_data' = compute_weekly_ranking(t, game_days)
  /\ pc' = "computed"
  /\ UNCHANGED <<DAILY_DIR, game_days, OUTPUT_FILE, eventVars>>

\* a second call with the same arguments, the files being what they were
RunAgain ==
  /\ pc = "computed"
  /\ weekly_data' = compute_weekly_ranking(today_str, game_days)
  /\ pc' = "recomputed"
  /\ UNCHANGED <<DAILY_DIR, game_days, today_str, OUTPUT_FILE, eventVars>>

\* main, after the call: the output file is written only for a truthy result
WriteOutput ==
  /\ pc \in {"computed", "recomputed"}
  /\ OUTPUT_FILE' = IF weekly_data # None /\ weekly_data[1] # <<>>
                      THEN Some(build_output(weekly_data[1]))
                      ELSE OUTPUT_FILE
  /\ pc' = "done"
  /\ UNCHANGED <<DAILY_DIR, game_days, today_str, weekly_data, eventVars>>

Next ==
  \/ \E d \in SnapDates, entries \in EntryLists : SaveSnapshot(d, entries)
  \/ \E t \in RunDates : RunCompute(t)
  \/ RunAgain
  \/ WriteOutput

Spec == Init /\ [][Next]_vars

InitEvents ==
  /\ DAILY_DIR = [d \in SnapDates |-> None]
  /\ game_days = {}
  /\ today_str = 0
  /\ weekly_data = None
  /\ OUTPUT_FILE = PreviousOutput
  /\ pc = "idle"
  /\ events \in EventLists
  /\ game_map = [raised |-> FALSE, game_days |-> NoGameDays]
  /\ gpc = "start"

\* main calls get_game_dates_for_week for the week of day 0
GetGameDates ==
  /\ gpc = "start"
  /\ game_map' = get_game_dates_for_week(events, 0, WEEK_DAYS - 1)
  /\ gpc' = IF game_map'.raised THEN "raised" ELSE "returned"
  /\ UNCHANGED <<rankVars, events>>

NextEvents == GetGameDates

SpecEvents == InitEvents /\ [][NextEvents]_vars

(* ------------------------------ claims ---------------------------------- *)
Ran == pc \in {"computed", "recomputed", "done"}
Rows == IF weekly_data = None THEN <<>> ELSE weekly_data[1]
Monday == today_str - (today_str % 7)
DayIdx == 0..6

\* the date lies in the run's week up to today and has a snapshot file
SnapshotAt(d) ==
  /\ Monday <= d /\ d <= today_str
  /\ d \in DOMAIN DAILY_DIR /\ DAILY_DIR[d] # None

Lists(entries, e) == \E k \in 1..Len(entries) : entries[k].entry = e
TotalOf(entries, e) == entries[CHOOSE k \in 1..Len(entries) : entries[k].entry = e].total

\* the participant has a current total at the date
HasCurrent(e, d) == SnapshotAt(d) /\ Lists(DAILY_DIR[d][1], e)

PreWeekDates == { d \in DOMAIN DAILY_DIR : d < Monday /\ DAILY_DIR[d] # None }

\* the previous total of the claim C3: None or Some(total)
Reference(e, i) ==
  LET back == { j \in 0..(i - 1) : HasCurrent(e, Monday + j) }
  IN  IF back # {}
        THEN Some(TotalOf(DAILY_DIR[Monday + MaxOf(back)][1], e))
      ELSE IF PreWeekDates # {} /\ Lists(DAILY_DIR[MaxOf(PreWeekDates)][1], e)
        THEN Some(TotalOf(DAILY_DIR[MaxOf(PreWeekDates)][1], e))
      ELSE None

RECURSIVE SumDays(_, _)
SumDays(days, i) ==
  IF i < 0 THEN 0
  ELSE SumDays(days, i - 1) + (IF days[i] = None THEN 0 ELSE days[i][1])

\* C1: the weekly total of every returned row is the sum of the non-null
\* entries of its 7-slot days array, and of nothing else.
C1_TotalIsSumOfDays ==
  Ran => \A k \in 1..Len(Rows) : Rows[k].total = SumDays(Rows[k].days, 6)

C1_Witness ==
  /\ Ran
  /\ \E k \in 1..Len(Rows) : \E i, j \in DayIdx :
       /\ i # j
       /\ Rows[k].days[i] # None /\ Rows[k].days[i][1] # 0
       /\ Rows[k].days[j] # None /\ Rows[k].days[j][1] # 0
       /\ Rows[k].total = Rows[k].days[i][1] + Rows[k].days[j][1]

\* C2 as stated: days[i] is null exactly when i is not a game day or the date
\* Monday+i has no snapshot (dates after today having none).
C2_NullIffNoGameOrNoSnapshot ==
  Ran => \A k \in 1..Len(Rows) : \A i \in DayIdx :
           (Rows[k].days[i] = None) <=>
             (i \notin game_days \/ ~SnapshotAt(Monday + i))

\* C2, amended: days[i] is null exactly when i is not a game day, or the date
\* Monday+i has no snapshot (dates after today having none), or that snapshot
\* does not list the participant; otherwise it is an integer.
C2_NullIffNoGameOrNoTotal ==
  Ran => \A k \in 1..Len(Rows) : \A i \in DayIdx :
           /\ (Rows[k].days[i] = None) <=>
                (i \notin game_days \/ ~HasCurrent(Rows[k].entry, Monday + i))
           /\ Rows[k].days[i] # None =>
                Len(Rows[k].days[i]) = 1 /\ Rows[k].days[i][1] \in Int

C2_Witness ==
  /\ Ran
  /\ \E k \in 1..Len(Rows) : \E i \in game_days :
       /\ SnapshotAt(Monday + i)
       /\ ~Lists(DAILY_DIR[Monday + i][1], Rows[k].entry)
       /\ Rows[k].days[i] = None
  /\ \E k \in 1..Len(Rows) : \E i \in DayIdx \ game_days :
       HasCurrent(Rows[k].entry, Monday + i) /\ Rows[k].days[i] = None

TruncDiv(a, b) == IF a >= 0 THEN a \div b ELSE 0 - ((0 - a) \div b)

\* C3 as stated: with a previous total found, days[i] is
\* (current_total - prev_total) / 10 truncated toward zero.
C3_DeltaTruncates ==
  Ran => \A k \in 1..Len(Rows) : \A i \in game_days :
           (HasCurrent(Rows[k].entry, Monday + i) /\ Reference(Rows[k].entry, i) # None)
             => Rows[k].days[i] =
                  Some(TruncDiv(TotalOf(DAILY_DIR[Monday + i][1], Rows[k].entry)
                                  - Reference(Rows[k].entry, i)[1], 10))

\* C3, amended: with a previous total found, days[i] is
\* (current_total - prev_total) / 10 rounded down (floor), so a decrease gives
\* a negative value that is not clamped to zero.
C3_DeltaFloors ==
  Ran => \A k \in 1..Len(Rows) : \A i \in game_days :
           (HasCurrent(Rows[k].entry, Monday + i) /\ Reference(Rows[k].entry, i) # None)
             => Rows[k].days[i] =
                  Some((TotalOf(DAILY_DIR[Monday + i][1], Rows[k].entry)
                          - Reference(Rows[k].entry, i)[1]) \div 10)

C3_Witness ==
  /\ Ran
  /\ \E k \in 1..Len(Rows) : \E i \in game_days :
       /\ HasCurrent(Rows[k].entry, Monday + i)
       /\ Reference(Rows[k].entry, i) # None
       /\ TotalOf(DAILY_DIR[Monday + i][1], Rows[k].entry)
            - Reference(Rows[k].entry, i)[1] = 0 - 15
       /\ Rows[k].days[i] = Some(0 - 2)

\* the participants of the week's snapshots up to today
Known == { e \in EntryIds : \E d \in DOMAIN DAILY_DIR : HasCurrent(e, d) }
FirstDate(e) == CHOOSE d \in DOMAIN DAILY_DIR :
                  HasCurrent(e, d) /\ \A x \in DOMAIN DAILY_DIR : HasCurrent(e, x) => d <= x
PosIn(entries, e) == CHOOSE k \in 1..Len(entries) : entries[k].entry = e
SeenBefore(a, b) ==
  \/ FirstDate(a) < FirstDate(b)
  \/ /\ FirstDate(a) = FirstDate(b)
     /\ PosIn(DAILY_DIR[FirstDate(a)][1], a) < PosIn(DAILY_DIR[FirstDate(a)][1], b)

\* C4: the ranks are 1..N in list order, one row for each known participant,
\* the totals do not increase along the list, and rows of equal total stand
\* in the order in which their ids were first seen from Monday forward.
C4_RanksDenseSortedStable ==
  (Ran /\ weekly_data # None) =>
    /\ Len(Rows) = Cardinality(Known)
    /\ { Rows[k].entry : k \in 1..Len(Rows) } = Known
    /\ \A k \in 1..Len(Rows) : Rows[k].rank = k
    /\ \A k, l \in 1..Len(Rows) :
         k < l => /\ Rows[k].total >= Rows[l].total
                  /\ Rows[k].total = Rows[l].total
                       => SeenBefore(Rows[k].entry, Rows[l].entry)

C4_Witness ==
  /\ Ran
  /\ Len(Rows) = 2
  /\ Rows[1].total = Rows[2].total
  /\ Rows[1].entry > Rows[2].entry
  /\ \E i \in game_days : Rows[1].days[i] # None /\ Rows[2].days[i] # None

InWeekDates == { d \in DOMAIN DAILY_DIR : SnapshotAt(d) }

\* C5: with fewer than two snapshot dates in the week up to today, or without
\* a snapshot of yesterday (yesterday before Monday included), every row has
\* movement 0.
C5_NoHistoryNoMovement ==
  (Ran /\ (Cardinality(InWeekDates) < 2 \/ ~SnapshotAt(today_str - 1))) =>
    \A k \in 1..Len(Rows) : Rows[k].movement = 0

C5_Witness ==
  /\ Ran
  /\ Len(Rows) = 2
  /\ Rows[1].entry > Rows[2].entry
  /\ Rows[1].total > Rows[2].total
  /\ today_str = Monday
  /\ PreWeekDates # {}
  /\ \A k \in 1..Len(Rows) : Rows[k].movement = 0

\* C6: a participant listed by no snapshot of the week dated on or before
\* yesterday has movement 0.
C6_NewcomerHasNoMovement ==
  Ran => \A k \in 1..Len(Rows) :
           (\A d \in DOMAIN DAILY_DIR :
              HasCurrent(Rows[k].entry, d) => d > today_str - 1)
             => Rows[k].movement = 0

WellFormed(event) == event.deadline_time.kind = "iso"

\* C7: get_game_dates_for_week returns for every list of events, and returns
\* the mapping that the list without its malformed events gives.
C7_MalformedEventsSkipped ==
  gpc # "start" =>
    /\ gpc = "returned"
    /\ ~game_map.raised
    /\ game_map.game_days =
         get_game_dates_for_week(SelectSeq(events, WellFormed), 0, 6).game_days

\* C8: the call returns None exactly when no date from Monday through today
\* has a snapshot, and main leaves the output file as it was when the call
\* returned None.
C8_NoneIffNoSnapshot ==
  Ran => /\ (weekly_data = None) <=> (InWeekDates = {})
         /\ (pc = "done" /\ weekly_data = None) => OUTPUT_FILE = PreviousOutput

C8_Witness ==
  /\ pc = "done"
  /\ weekly_data = None
  /\ OUTPUT_FILE = PreviousOutput
  /\ PreWeekDates # {}
  /\ \E d \in DOMAIN DAILY_DIR : d > today_str /\ DAILY_DIR[d] # None

RankIn(rows, e) == rows[CHOOSE k \in 1..Len(rows) : rows[k].entry = e].rank

\* C10: with yesterday in the week and captured, and two snapshot dates in the
\* week, the movement of every participant listed on or before yesterday is
\* its rank in the call with today := yesterday minus its rank of today.
C10_MovementFromRerun ==
  (Ran /\ SnapshotAt(today_str - 1) /\ Cardinality(InWeekDates) >= 2) =>
    \A k \in 1..Len(Rows) :
      (\E d \in DOMAIN DAILY_DIR : d <= today_str - 1 /\ HasCurrent(Rows[k].entry, d))
        => Rows[k].movement =
             RankIn(compute_weekly_ranking(today_str - 1, game_days)[1], Rows[k].entry)
               - Rows[k].rank

\* the slot i of the participant is filled by the no-reference branch
NoReferenceSlot(e, i) ==
  /\ i \in game_days
  /\ HasCurrent(e, Monday + i)
  /\ Reference(e, i) = None

\* C11: a slot is set to 0 by the no-reference branch only at the
\* participant's first captured date ever, that is, no snapshot of the store
\* dated before Monday+i lists the participant; and a participant first
\* captured on a game day, with no earlier reference, has 0 in that slot.
C11_NoReferenceOnlyAtFirstCapture ==
  Ran => \A k \in 1..Len(Rows) : \A i \in DayIdx :
           NoReferenceSlot(Rows[k].entry, i) =>
             /\ Rows[k].days[i] = Some(0)
             /\ \A d \in DOMAIN DAILY_DIR :
                  (d < Monday + i /\ DAILY_DIR[d] # None)
                    => ~Lists(DAILY_DIR[d][1], Rows[k].entry)

====
